---- MODULE Spec2Model ----
(***************************************************************************)
(* Model of package maybe (src/maybe/maybe.go): the optional Maybe[T], its *)
(* constructors, the Iface bridge setters and accessors, the combinators   *)
(* Fmap / FallibleFmap / Bind / Join, and the JSON and database adapters.  *)
(*                                                                         *)
(* The specification Spec drives one optional m of type Maybe[int]         *)
(* through every operation of the package; the variable last records the   *)
(* operation that ran last, its arguments, the optional before the call    *)
(* and what the call returned.  The specification SpecValue applies        *)
(* Maybe[T].Value to optionals of every numeric payload type, with the     *)
(* payload kept as the bit pattern of its Go type.                         *)
(***************************************************************************)
EXTENDS Integers, Sequences, FiniteSets, TLC

VARIABLES
    m,      \* the optional under manipulation: [Val, Valid]
    recv,   \* the receiver copy made by the last call of Pointer() that returned non-nil
    ptr,    \* the pointer held by the caller: "nil", "recv" (into recv) or "m" (into m)
    wire,   \* the last MarshalJSON output together with the optional it encoded
    last,   \* the last operation: name, arguments, optional before the call, results
    iface   \* the Iface the caller got from m.MaybeIface(): what it points at, and the copy

vars == <<m, recv, ptr, wire, last, iface>>

(***************************************************************************)
(* Bounds and input sets.                                                  *)
(***************************************************************************)
MaxVal == 12

\* Payload values of Maybe[int] the operations are fed with.
Vals == {0, 1, MaxVal, -MaxVal}

\* Dynamic values (interface{}): a runtime type and a value; NilDyn is the nil interface.
NilDyn == [t |-> "nil", v |-> 0]
IntDyn(x) == [t |-> "int", v |-> x]
DynVals == {IntDyn(x) : x \in Vals}
             \cup {NilDyn, [t |-> "string", v |-> 1], [t |-> "int64", v |-> 1]}

\* Raw pointers handed to New and SetPtr: nil, or the address of an int holding pointee.
NilPtr == [isNil |-> TRUE, pointee |-> 0]
PtrTo(x) == [isNil |-> FALSE, pointee |-> x]
PtrArgs == {NilPtr} \cup {PtrTo(x) : x \in Vals}

(***************************************************************************)
(* Maybe[T], Unit, Nothing, New.                                           *)
(***************************************************************************)
\* The zero value of the payload type int.
ZeroT == 0

Maybe(val, valid) == [Val |-> val, Valid |-> valid]

Unit(x) == Maybe(x, TRUE)

Nothing == Maybe(ZeroT, FALSE)

New(x) == IF x.isNil THEN Nothing ELSE Unit(x.pointee)

(***************************************************************************)
(* Accessors.                                                              *)
(***************************************************************************)
\* GetOr without the guard on Valid.
GetOrUnguarded(mm, defVal) == mm.Val

GetOr(mm, defVal) == IF mm.Valid THEN mm.Val ELSE defVal

GetOrZero(mm) == IF mm.Valid THEN mm.Val ELSE ZeroT

\* Get boxing the payload slot's zero value instead of returning the nil interface.
GetBoxedZero(mm) == IF mm.Valid THEN [v |-> IntDyn(mm.Val), ok |-> TRUE]
                                ELSE [v |-> IntDyn(ZeroT), ok |-> FALSE]

\* Get returns (interface{}, bool): the boxed payload, or the nil interface.
Get(mm) == IF mm.Valid THEN [v |-> IntDyn(mm.Val), ok |-> TRUE]
                       ELSE [v |-> NilDyn, ok |-> FALSE]

\* Pointer has a value receiver: mm is the callee's copy of the optional, which
\* lives at address self, and the result is the address of that copy's Val.
Pointer(mm, self) == IF mm.Valid THEN self ELSE "nil"

\* GetPtr has a pointer receiver and calls m.Pointer(), which copies *m.
GetPtr(mm, self) == Pointer(mm, self)

\* MaybeIface has a value receiver: mm is the callee's copy of the optional,
\* which lives at address self, and the Iface returned is &m, that copy's address.
MaybeIface(mm, self) == [at |-> self, cell |-> mm]

(***************************************************************************)
(* Bridge setters.                                                         *)
(***************************************************************************)
\* Set with the comma-ok assertion v, _ := x.(T), which never panics.
SetCommaOk(mm, x) ==
    [m |-> Maybe(IF x.t = "int" THEN x.v ELSE ZeroT, TRUE), panicked |-> FALSE]

\* m.Val = x.(T) panics when the dynamic type of x is not T, before any store.
Set(mm, x) ==
    IF x.t = "int"
    THEN [m |-> Maybe(x.v, TRUE), panicked |-> FALSE]
    ELSE [m |-> mm, panicked |-> TRUE]

SetPtr(mm, p) == IF p.isNil THEN Maybe(mm.Val, FALSE) ELSE Maybe(p.pointee, TRUE)

SetValid(mm) == Maybe(mm.Val, TRUE)

(***************************************************************************)
(* encoding/json for an int payload: bytes are sequences of characters.    *)
(***************************************************************************)
null == <<"n", "u", "l", "l">>

Digit == <<"0", "1", "2", "3", "4", "5", "6", "7", "8", "9">>

RECURSIVE NatToDigits(_)
NatToDigits(n) ==
    IF n < 10 THEN <<Digit[n + 1]>>
    ELSE NatToDigits(n \div 10) \o <<Digit[(n % 10) + 1]>>

\* json.Marshal of an int: its decimal representation.
JsonMarshalInt(v) == IF v < 0 THEN <<"-">> \o NatToDigits(-v) ELSE NatToDigits(v)

IsDigit(c) == \E i \in 1..10 : Digit[i] = c

DigitVal(c) == (CHOOSE i \in 1..10 : Digit[i] = c) - 1

RECURSIVE DigitsToNat(_)
DigitsToNat(s) ==
    IF Len(s) = 0 THEN 0
    ELSE 10 * DigitsToNat(SubSeq(s, 1, Len(s) - 1)) + DigitVal(s[Len(s)])

\* A JSON integer literal without sign: 0, or digits with no leading zero.
IsJsonNat(s) ==
    /\ Len(s) > 0
    /\ \A i \in 1..Len(s) : IsDigit(s[i])
    /\ (Len(s) > 1 => s[1] # "0")

IsJsonLiteral(s) == s \in {<<"t", "r", "u", "e">>, <<"f", "a", "l", "s", "e">>}

\* json.Unmarshal(val, &x) for x of type int: the value stored (if any) and the error.
JsonUnmarshalInt(val) ==
    IF IsJsonNat(val) THEN [ok |-> TRUE, v |-> DigitsToNat(val), err |-> ""]
    ELSE IF Len(val) > 1 /\ val[1] = "-" /\ IsJsonNat(Tail(val))
    THEN [ok |-> TRUE, v |-> 0 - DigitsToNat(Tail(val)), err |-> ""]
    ELSE IF val = null THEN [ok |-> FALSE, v |-> 0, err |-> ""]
    ELSE IF IsJsonLiteral(val) THEN [ok |-> FALSE, v |-> 0, err |-> "UnmarshalTypeError"]
    ELSE [ok |-> FALSE, v |-> 0, err |-> "SyntaxError"]

\* MarshalJSON without the guard on Valid.
MarshalJSONUnguarded(mm) == JsonMarshalInt(mm.Val)

MarshalJSON(mm) == IF ~mm.Valid THEN null ELSE JsonMarshalInt(mm.Val)

\* UnmarshalJSON marking the optional present only once the decode succeeded.
UnmarshalJSONValidOnSuccess(mm, val) ==
    IF val = null
    THEN [m |-> mm, err |-> ""]
    ELSE LET r == JsonUnmarshalInt(val)
         IN  [m |-> IF r.ok THEN Maybe(r.v, TRUE) ELSE mm, err |-> r.err]

UnmarshalJSON(mm, val) ==
    IF val = null
    THEN [m |-> mm, err |-> ""]
    ELSE LET r == JsonUnmarshalInt(val)
         IN  [m |-> Maybe(IF r.ok THEN r.v ELSE mm.Val, TRUE), err |-> r.err]

\* The byte strings handed to UnmarshalJSON.
Tokens == {null} \cup {JsonMarshalInt(v) : v \in Vals}
            \cup {<<"t", "r", "u", "e">>, <<"0", "1">>, <<"-">>}

(***************************************************************************)
(* Combinators.  Caller-supplied functions are drawn from small named      *)
(* sets; a function of type func(T) U is a sequence of primitive names,    *)
(* applied right to left, so that composition is concatenation.            *)
(***************************************************************************)
Identity(x) == x

Prims == {"Identity", "succ", "neg", "zero"}

ApplyPrim(f, x) ==
    CASE f = "Identity" -> Identity(x)
      [] f = "succ"     -> x + 1
      [] f = "neg"      -> 0 - x
      [] f = "zero"     -> 0

RECURSIVE Apply(_, _)
Apply(f, x) == IF Len(f) = 0 THEN x ELSE ApplyPrim(Head(f), Apply(Tail(f), x))

Compose(f, g) == f \o g

Funcs == {<<p>> : p \in Prims}

\* Fmap without the guard on Valid.
FmapUnguarded(f, x) == Maybe(Apply(f, x.Val), TRUE)

Fmap(f, x) == IF ~x.Valid THEN Maybe(ZeroT, FALSE) ELSE Maybe(Apply(f, x.Val), TRUE)

\* Functions of type func(T) (U, error); the nil error is "".
ErrFuncs == {"succOk", "errAlways", "errWithValue", "errIfNegative"}

ApplyE(f, x) ==
    CASE f = "succOk"        -> [y |-> x + 1, err |-> ""]
      [] f = "errAlways"     -> [y |-> 0, err |-> "ErrUnsupported"]
      [] f = "errWithValue"  -> [y |-> x + 1, err |-> "ErrUnsupported"]
      [] f = "errIfNegative" -> IF x < 0 THEN [y |-> 0, err |-> "ErrNegative"]
                                         ELSE [y |-> x, err |-> ""]

\* FallibleFmap returning what f produced next to the error.
FallibleFmapKeepsValue(f, x) ==
    IF ~x.Valid
    THEN [m |-> Maybe(ZeroT, FALSE), err |-> "", calls |-> <<>>]
    ELSE LET r == ApplyE(f, x.Val)
         IN  [m |-> Maybe(r.y, TRUE), err |-> r.err, calls |-> <<x.Val>>]

\* The result pair of FallibleFmap, with the arguments f was invoked on.
FallibleFmap(f, x) ==
    IF ~x.Valid
    THEN [m |-> Maybe(ZeroT, FALSE), err |-> "", calls |-> <<>>]
    ELSE LET r == ApplyE(f, x.Val)
         IN  IF r.err # ""
             THEN [m |-> Maybe(ZeroT, FALSE), err |-> r.err, calls |-> <<x.Val>>]
             ELSE [m |-> Maybe(r.y, TRUE), err |-> "", calls |-> <<x.Val>>]

\* Functions of type func(T) Maybe[U].
KleisliFuncs == {"Unit", "Nothing", "UnitIfPositive", "UnitSucc"}

ApplyK(f, x) ==
    CASE f = "Unit"           -> Unit(x)
      [] f = "Nothing"        -> Nothing
      [] f = "UnitIfPositive" -> IF x > 0 THEN Unit(x) ELSE Nothing
      [] f = "UnitSucc"       -> Unit(x + 1)
      [] f = "Identity"       -> Identity(x)

\* Bind without the guard on Valid.
BindUnguarded(f, x) == [m |-> ApplyK(f, x.Val), calls |-> <<x.Val>>]

\* The result of Bind, with the arguments f was invoked on.
Bind(f, x) ==
    IF ~x.Valid
    THEN [m |-> Maybe(ZeroT, FALSE), calls |-> <<>>]
    ELSE [m |-> ApplyK(f, x.Val), calls |-> <<x.Val>>]

Join(x) == Bind("Identity", x).m

(***************************************************************************)
(* database/sql: Scan.                                                     *)
(***************************************************************************)
\* The values a driver hands to Scan: nil, an int64, or a string that is no number.
ScanArgs == {NilDyn, [t |-> "string", v |-> 1]} \cup {[t |-> "int64", v |-> x] : x \in Vals}

\* sql.Null[int].Scan.
NullScan(val) ==
    IF val.t = "nil" THEN [V |-> ZeroT, Valid |-> FALSE, err |-> ""]
    ELSE IF val.t = "int64" THEN [V |-> val.v, Valid |-> TRUE, err |-> ""]
    ELSE [V |-> ZeroT, Valid |-> TRUE, err |-> "ConvertError"]

Scan(mm, val) ==
    LET v == NullScan(val)
    IN  IF v.err # "" THEN [m |-> mm, err |-> v.err]
        ELSE [m |-> Maybe(v.V, v.Valid), err |-> ""]

(***************************************************************************)
(* database/sql/driver: Value.  A numeric payload is the bit pattern of    *)
(* its Go type: an integer is a little-endian sequence of 16-bit limbs (a  *)
(* single limb below 2^8 for the 8-bit types), a float is its IEEE 754     *)
(* fields.  int and uint are 64 bits wide, as on every 64-bit platform.    *)
(***************************************************************************)
Base == 2^16

SignedTypes == {"int", "int8", "int16", "int32", "int64"}

UnsignedTypes == {"uint", "uint8", "uint16", "uint32", "uint64"}

IntTypes == SignedTypes \cup UnsignedTypes

Width(t) ==
    CASE t \in {"int8", "uint8"}   -> 8
      [] t \in {"int16", "uint16"} -> 16
      [] t \in {"int32", "uint32"} -> 32
      [] OTHER                     -> 64

NLimbs(t) == IF Width(t) = 8 THEN 1 ELSE Width(t) \div 16

\* Whether the most significant bit of a Width(t)-bit pattern is set.
TopBit(t, bits) ==
    IF Width(t) = 8 THEN bits[1] >= 2^7 ELSE bits[Len(bits)] >= 2^15

\* int64(v) zero extending every operand.
ToInt64ZeroExtend(t, bits) == [i \in 1..4 |-> IF i <= Len(bits) THEN bits[i] ELSE 0]

\* The conversion int64(v) of the language: a signed operand is sign extended
\* and an unsigned one zero extended, then the result is cut to 64 bits.
ToInt64(t, bits) ==
    LET ext == t \in SignedTypes /\ TopBit(t, bits)
        fill == IF ext THEN Base - 1 ELSE 0
        low == IF Width(t) = 8 /\ ext THEN bits[1] + (Base - 2^8) ELSE bits[1]
    IN  [i \in 1..4 |-> IF i = 1 THEN low ELSE IF i <= Len(bits) THEN bits[i] ELSE fill]

\* The conversion float64(v) of a float32 [sign, exp (8 bits), frac (23 bits)]
\* to [sign, exp (11 bits), fracHi (23 bits), fracLo (29 bits)].
RECURSIVE Log2(_)
Log2(n) == IF n < 2 THEN 0 ELSE 1 + Log2(n \div 2)

ToFloat64(f) ==
    IF f.exp = 255
    THEN [sign |-> f.sign, exp |-> 2047, fracHi |-> f.frac, fracLo |-> 0]
    ELSE IF f.exp = 0 /\ f.frac = 0
    THEN [sign |-> f.sign, exp |-> 0, fracHi |-> 0, fracLo |-> 0]
    ELSE IF f.exp = 0
    THEN LET k == Log2(f.frac)
         IN  [sign |-> f.sign, exp |-> k + 874,
              fracHi |-> (f.frac - 2^k) * 2^(23 - k), fracLo |-> 0]
    ELSE [sign |-> f.sign, exp |-> f.exp + 896, fracHi |-> f.frac, fracLo |-> 0]

\* A payload [t, bits]; the driver's nil is NilDyn.
Typed(t, bits) == [t |-> t, bits |-> bits]

\* Value(): (driver.Value, error).  A payload that is a driver.Valuer carries
\* what its own Value() returns.
Value(mm) ==
    IF ~mm.Valid THEN [v |-> NilDyn, err |-> ""]
    ELSE LET v == mm.Val
         IN  CASE v.t = "Valuer" -> v.bits
               [] v.t \in (IntTypes \ {"int64"}) ->
                    [v |-> Typed("int64", ToInt64(v.t, v.bits)), err |-> ""]
               [] v.t = "float32" -> [v |-> Typed("float64", ToFloat64(v.bits)), err |-> ""]
               [] OTHER -> [v |-> v, err |-> ""]

\* The bit pattern of an int holding the small number x.
IntBits(x) ==
    IF x >= 0 THEN <<x, 0, 0, 0>> ELSE <<Base + x, Base - 1, Base - 1, Base - 1>>

(***************************************************************************)
(* Maybe[int] as Spec drives it.                                           *)
(***************************************************************************)
\* The record of a call: everything but op and pre is filled in by the action.
NoOp ==
    [op |-> "init", pre |-> Nothing, fn |-> <<>>, argV |-> 0, argD |-> NilDyn,
     argP |-> NilPtr, argB |-> <<>>, argOk |-> FALSE, outM |-> Nothing, outV |-> 0, outD |-> NilDyn,
     outOk |-> FALSE, outErr |-> "", outB |-> <<>>, outPtr |-> "nil",
     outDV |-> NilDyn, panicked |-> FALSE, calls |-> <<>>]

Call(op) == [NoOp EXCEPT !.op = op, !.pre = m]

NoWire == [bytes |-> <<>>, src |-> Nothing]

\* No Iface obtained yet.
NoIface == [at |-> "nil", cell |-> Nothing]

Init ==
    /\ m = Nothing
    /\ recv = Nothing
    /\ ptr = "nil"
    /\ wire = NoWire
    /\ iface = NoIface
    /\ last = NoOp

UnitStep ==
    \E x \in Vals :
        /\ m' = Unit(x)
        /\ last' = [Call("Unit") EXCEPT !.argV = x]
        /\ UNCHANGED <<recv, ptr, wire, iface>>

NothingStep ==
    /\ m' = Nothing
    /\ last' = Call("Nothing")
    /\ UNCHANGED <<recv, ptr, wire, iface>>

NewStep ==
    \E p \in PtrArgs :
        /\ m' = New(p)
        /\ last' = [Call("New") EXCEPT !.argP = p]
        /\ UNCHANGED <<recv, ptr, wire, iface>>

GetOrStep ==
    \E d \in Vals :
        /\ last' = [Call("GetOr") EXCEPT !.argV = d, !.outV = GetOr(m, d)]
        /\ UNCHANGED <<m, recv, ptr, wire, iface>>

GetOrZeroStep ==
    /\ last' = [Call("GetOrZero") EXCEPT !.outV = GetOrZero(m)]
    /\ UNCHANGED <<m, recv, ptr, wire, iface>>

GetStep ==
    /\ last' = [Call("Get") EXCEPT !.outD = Get(m).v, !.outOk = Get(m).ok]
    /\ UNCHANGED <<m, recv, ptr, wire, iface>>

\* m.Pointer(): the receiver is copied into the callee's frame; when the address
\* of the copy's Val is returned the copy outlives the call.
PointerStep ==
    LET p == Pointer(m, "recv")
    IN  /\ ptr' = p
        /\ recv' = IF p = "recv" THEN m ELSE recv
        /\ last' = [Call("Pointer") EXCEPT !.outPtr = p]
        /\ UNCHANGED <<m, wire, iface>>

GetPtrStep ==
    LET p == GetPtr(m, "recv")
    IN  /\ ptr' = p
        /\ recv' = IF p = "recv" THEN m ELSE recv
        /\ last' = [Call("GetPtr") EXCEPT !.outPtr = p]
        /\ UNCHANGED <<m, wire, iface>>

\* The caller stores v through the pointer it got from Pointer() or GetPtr().
WritePtrStep ==
    \E v \in Vals :
        /\ ptr # "nil"
        /\ IF ptr = "m"
           THEN m' = Maybe(v, m.Valid) /\ UNCHANGED recv
           ELSE recv' = Maybe(v, recv.Valid) /\ UNCHANGED m
        /\ last' = [Call("WritePtr") EXCEPT !.argV = v, !.outPtr = ptr]
        /\ UNCHANGED <<ptr, wire, iface>>

SetStep ==
    \E x \in DynVals :
        LET r == Set(m, x)
        IN  /\ m' = r.m
            /\ last' = [Call("Set") EXCEPT !.argD = x, !.panicked = r.panicked]
            /\ UNCHANGED <<recv, ptr, wire, iface>>

SetPtrStep ==
    \E p \in PtrArgs :
        /\ m' = SetPtr(m, p)
        /\ last' = [Call("SetPtr") EXCEPT !.argP = p]
        /\ UNCHANGED <<recv, ptr, wire, iface>>

SetValidStep ==
    /\ m' = SetValid(m)
    /\ last' = Call("SetValid")
    /\ UNCHANGED <<recv, ptr, wire, iface>>

FmapStep ==
    \E f \in Funcs :
        /\ last' = [Call("Fmap") EXCEPT !.fn = f, !.outM = Fmap(f, m)]
        /\ UNCHANGED <<m, recv, ptr, wire, iface>>

FallibleFmapStep ==
    \E f \in ErrFuncs :
        LET r == FallibleFmap(f, m)
        IN  /\ last' = [Call("FallibleFmap") EXCEPT !.fn = <<f>>, !.outM = r.m,
                                                     !.outErr = r.err, !.calls = r.calls]
            /\ UNCHANGED <<m, recv, ptr, wire, iface>>

BindStep ==
    \E f \in KleisliFuncs :
        LET r == Bind(f, m)
        IN  /\ last' = [Call("Bind") EXCEPT !.fn = <<f>>, !.outM = r.m, !.calls = r.calls]
            /\ UNCHANGED <<m, recv, ptr, wire, iface>>

\* Join of Unit(m), or of the empty Maybe[Maybe[int]] whose payload slot holds m.
JoinStep ==
    \E outer \in BOOLEAN :
        /\ last' = [Call("Join") EXCEPT !.argOk = outer, !.outM = Join(Maybe(m, outer))]
        /\ UNCHANGED <<m, recv, ptr, wire, iface>>

MarshalJSONStep ==
    /\ wire' = [bytes |-> MarshalJSON(m), src |-> m]
    /\ last' = [Call("MarshalJSON") EXCEPT !.outB = MarshalJSON(m)]
    /\ UNCHANGED <<m, recv, ptr, iface>>

UnmarshalJSONStep ==
    \E val \in Tokens :
        LET r == UnmarshalJSON(m, val)
        IN  /\ m' = r.m
            /\ last' = [Call("UnmarshalJSON") EXCEPT !.argB = val, !.outErr = r.err]
            /\ UNCHANGED <<recv, ptr, wire, iface>>

ScanStep ==
    \E val \in ScanArgs :
        LET r == Scan(m, val)
        IN  /\ m' = r.m
            /\ last' = [Call("Scan") EXCEPT !.argD = val, !.outErr = r.err]
            /\ UNCHANGED <<recv, ptr, wire, iface>>

ValueStep ==
    LET r == Value(Maybe(Typed("int", IntBits(m.Val)), m.Valid))
    IN  /\ last' = [Call("Value") EXCEPT !.outDV = r.v, !.outErr = r.err]
        /\ UNCHANGED <<m, recv, ptr, wire, iface>>

Next ==
    \/ UnitStep \/ NothingStep \/ NewStep
    \/ GetOrStep \/ GetOrZeroStep \/ GetStep
    \/ PointerStep \/ GetPtrStep \/ WritePtrStep
    \/ SetStep \/ SetPtrStep \/ SetValidStep
    \/ FmapStep \/ FallibleFmapStep \/ BindStep \/ JoinStep
    \/ MarshalJSONStep \/ UnmarshalJSONStep \/ ScanStep \/ ValueStep

Spec == Init /\ [][Next]_vars

(***************************************************************************)
(* The Iface obtained from m.MaybeIface(): the specification SpecBridge.   *)
(***************************************************************************)
\* The optional the Iface held by the caller points at.
IfaceTarget == IF iface.at = "m" THEN m ELSE iface.cell

\* A method of the Iface storing new into the optional it points at.
IfaceStore(new) ==
    IF iface.at = "m"
    THEN m' = new /\ UNCHANGED iface
    ELSE iface' = [iface EXCEPT !.cell = new] /\ UNCHANGED m

MaybeIfaceStep ==
    /\ iface' = MaybeIface(m, "copy")
    /\ last' = Call("MaybeIface")
    /\ UNCHANGED <<m, recv, ptr, wire>>

IfaceSetStep ==
    \E x \in DynVals :
        LET r == Set(IfaceTarget, x)
        IN  /\ iface.at # "nil"
            /\ IfaceStore(r.m)
            /\ last' = [Call("Iface.Set") EXCEPT !.argD = x, !.panicked = r.panicked]
            /\ UNCHANGED <<recv, ptr, wire>>

IfaceSetPtrStep ==
    \E p \in PtrArgs :
        /\ iface.at # "nil"
        /\ IfaceStore(SetPtr(IfaceTarget, p))
        /\ last' = [Call("Iface.SetPtr") EXCEPT !.argP = p]
        /\ UNCHANGED <<recv, ptr, wire>>

IfaceSetValidStep ==
    /\ iface.at # "nil"
    /\ IfaceStore(SetValid(IfaceTarget))
    /\ last' = Call("Iface.SetValid")
    /\ UNCHANGED <<recv, ptr, wire>>

IfaceGetStep ==
    /\ iface.at # "nil"
    /\ last' = [Call("Iface.Get") EXCEPT !.outD = Get(IfaceTarget).v,
                                         !.outOk = Get(IfaceTarget).ok]
    /\ UNCHANGED <<m, recv, ptr, wire, iface>>

NextBridge ==
    \/ UnitStep \/ NothingStep \/ NewStep
    \/ SetStep \/ SetPtrStep \/ SetValidStep
    \/ MaybeIfaceStep
    \/ IfaceSetStep \/ IfaceSetPtrStep \/ IfaceSetValidStep \/ IfaceGetStep

SpecBridge == Init /\ [][NextBridge]_vars

(***************************************************************************)
(* Value() on every payload type: the specification SpecValue.             *)
(***************************************************************************)
Limbs8 == {0, 1, 2^7 - 1, 2^7, 2^8 - 1}

LimbsLow == {0, 1, Base - 1}

LimbsMid == {0, Base - 1}

LimbsTop == {0, 2^15 - 1, 2^15, Base - 1}

\* Bit patterns of type t: the extremes of the type and their neighbours.
BitsOf(t) ==
    CASE Width(t) = 8  -> {<<a>> : a \in Limbs8}
      [] Width(t) = 16 -> {<<a>> : a \in LimbsLow \cup LimbsTop}
      [] Width(t) = 32 -> {<<a, b>> : a \in LimbsLow, b \in LimbsTop}
      [] OTHER -> {<<a, b, c, d>> : a \in LimbsLow, b \in LimbsMid, c \in LimbsMid,
                                    d \in LimbsTop}

Float32s ==
    [sign : {0, 1}, exp : {0, 1, 127, 254, 255}, frac : {0, 1, 3, 2^22, 2^23 - 1}]

Valuers ==
    {Typed("Valuer", [v |-> Typed("int64", <<7, 0, 0, 0>>), err |-> ""]),
     Typed("Valuer", [v |-> NilDyn, err |-> "ValuerError"])}

Payloads ==
    UNION {{Typed(t, b) : b \in BitsOf(t)} : t \in IntTypes}
      \cup {Typed("float32", f) : f \in Float32s}
      \cup {Typed("string", <<1>>), Typed("bool", <<1>>)}
      \cup {Typed("float64", [sign |-> 0, exp |-> 1023, fracHi |-> 0, fracLo |-> 1])}
      \cup Valuers

InitValue ==
    /\ m \in {Maybe(p, b) : p \in Payloads, b \in BOOLEAN}
    /\ recv = Nothing
    /\ ptr = "nil"
    /\ wire = NoWire
    /\ iface = NoIface
    /\ last = NoOp

ValueTypedStep ==
    /\ last.op = "init"
    /\ last' = [Call("Value") EXCEPT !.outDV = Value(m).v, !.outErr = Value(m).err]
    /\ UNCHANGED <<m, recv, ptr, wire, iface>>

NextValue == ValueTypedStep

SpecValue == InitValue /\ [][NextValue]_vars

(***************************************************************************)
(* The number a bit pattern stands for, as sign and magnitude, and the     *)
(* number a float stands for, as mantissa * 2^exponent in lowest terms.    *)
(***************************************************************************)
RECURSIVE AddOne(_)
AddOne(s) ==
    IF Len(s) = 0 THEN <<>>
    ELSE IF s[1] = Base - 1 THEN <<0>> \o AddOne(Tail(s))
    ELSE <<s[1] + 1>> \o Tail(s)

\* 2^Width(t) - bits, for a pattern with the top bit set.
Negated(t, bits) ==
    IF Width(t) = 8 THEN <<2^8 - bits[1]>>
    ELSE AddOne([i \in 1..Len(bits) |-> (Base - 1) - bits[i]])

Pad4(s) == [i \in 1..4 |-> IF i <= Len(s) THEN s[i] ELSE 0]

IntNum(t, bits) ==
    IF t \in SignedTypes /\ TopBit(t, bits)
    THEN [neg |-> TRUE, mag |-> Pad4(Negated(t, bits))]
    ELSE [neg |-> FALSE, mag |-> Pad4(bits)]

\* (hi * 2^29 + lo) * 2^e with the factors of two moved into the exponent.
RECURSIVE Lowest(_, _, _)
Lowest(hi, lo, e) ==
    IF hi = 0 /\ lo = 0 THEN <<0, 0, 0>>
    ELSE IF lo % 2 = 1 THEN <<hi, lo, e>>
    ELSE Lowest(hi \div 2, (lo \div 2) + (hi % 2) * 2^28, e + 1)

Float32Num(f) ==
    IF f.exp = 255 THEN IF f.frac = 0 THEN <<"inf", f.sign>> ELSE <<"nan">>
    ELSE IF f.exp = 0 THEN <<"num", IF f.frac = 0 THEN 0 ELSE f.sign, Lowest(0, f.frac, 0 - 149)>>
    ELSE <<"num", f.sign, Lowest(0, 2^23 + f.frac, f.exp - 150)>>

Float64Num(g) ==
    IF g.exp = 2047
    THEN IF g.fracHi = 0 /\ g.fracLo = 0 THEN <<"inf", g.sign>> ELSE <<"nan">>
    ELSE IF g.exp = 0
    THEN <<"num", IF g.fracHi = 0 /\ g.fracLo = 0 THEN 0 ELSE g.sign,
           Lowest(g.fracHi, g.fracLo, 0 - 1074)>>
    ELSE <<"num", g.sign, Lowest(2^23 + g.fracHi, g.fracLo, g.exp - 1075)>>

(***************************************************************************)
(* Properties.                                                             *)
(***************************************************************************)
IsNullDecode == last.op = "UnmarshalJSON" /\ last.argB = null

\* C1: after UnmarshalJSON with the input null the optional is empty
\* (Valid = FALSE), whatever it held before the call.
C1_NullDecodeLeavesEmpty == IsNullDecode => ~m.Valid

C3_PointerAliasesPayload ==
    /\ (last.op = "WritePtr" /\ m.Valid) =>
           /\ m.Val = last.argV
           /\ GetOrZero(m) = last.argV
           /\ Get(m).v = IntDyn(last.argV)
    /\ (last.op \in {"Pointer", "GetPtr"} /\ ~last.pre.Valid) => last.outPtr = "nil"

\* The last call decoded the bytes MarshalJSON produced into a new, zero optional.
IsRoundTrip ==
    /\ last.op = "UnmarshalJSON"
    /\ wire # NoWire
    /\ last.argB = wire.bytes
    /\ last.pre = Nothing

\* C4 as stated: decoding the output of MarshalJSON(m) yields an optional equal
\* to m, in Valid and in Val, for every reachable m.
C4_RoundTripIsIdentity == IsRoundTrip => m = wire.src /\ last.outErr = ""

\* C4 as amended: decoding the output of MarshalJSON(m) into a new, zero
\* Maybe[int] succeeds and yields an optional with m's Valid; it has m's Val
\* when m is present, and is the zero empty optional when m is empty, whatever
\* m's payload slot held.
C4_RoundTripKeepsPresence ==
    IsRoundTrip =>
        /\ last.outErr = ""
        /\ m.Valid = wire.src.Valid
        /\ wire.src.Valid => m.Val = wire.src.Val
        /\ ~wire.src.Valid => m = Nothing

C4_Witness ==
    /\ IsRoundTrip
    /\ ~wire.src.Valid
    /\ wire.src.Val # ZeroT
    /\ m = Nothing

IsValueOf(types) == last.op = "Value" /\ last.pre.Valid /\ last.pre.Val.t \in types

\* A float32 whose conversion result g stands for the same number (NaN for NaN).
SameFloat(f, g) == Float32Num(f) = Float64Num(g)

\* C5 as stated: Value() of a present optional with a payload of any integer
\* type is an int64 standing for the same number as the payload, for every
\* value of the type; of a present float32 payload it is the float64 standing
\* for the same number.
C5_ValueKeepsTheNumber ==
    /\ IsValueOf(IntTypes) =>
           /\ last.outDV.t = "int64"
           /\ IntNum("int64", last.outDV.bits) = IntNum(last.pre.Val.t, last.pre.Val.bits)
    /\ IsValueOf({"float32"}) =>
           /\ last.outDV.t = "float64"
           /\ SameFloat(last.pre.Val.bits, last.outDV.bits)

\* The payload is a uint or uint64 above the largest int64.
IsAboveMaxInt64(p) == p.t \in {"uint", "uint64"} /\ TopBit(p.t, p.bits)

\* C5 as amended: Value() of a present optional with an integer payload is an
\* int64; it stands for the same number as the payload unless the payload is a
\* uint or uint64 above the largest int64, and then it is the negative int64
\* with the payload's bit pattern (the payload less 2^64).  Of a present
\* float32 payload it is the float64 standing for the same number, NaN for NaN.
C5_ValueKeepsTheNumberUpToMaxInt64 ==
    /\ IsValueOf(IntTypes) =>
           /\ last.outDV.t = "int64"
           /\ last.outErr = ""
           /\ IF IsAboveMaxInt64(last.pre.Val)
              THEN IntNum("int64", last.outDV.bits)
                     = [neg |-> TRUE, mag |-> Negated("uint64", last.pre.Val.bits)]
              ELSE IntNum("int64", last.outDV.bits)
                     = IntNum(last.pre.Val.t, last.pre.Val.bits)
    /\ IsValueOf({"float32"}) =>
           /\ last.outDV.t = "float64"
           /\ last.outErr = ""
           /\ SameFloat(last.pre.Val.bits, last.outDV.bits)

C5_Witness ==
    /\ IsValueOf({"uint64"})
    /\ IsAboveMaxInt64(last.pre.Val)
    /\ IntNum("int64", last.outDV.bits).neg

\* C6: FallibleFmap(f, m) of an empty m is (empty, no error) and f is not
\* invoked; of a present m with f failing it is (empty, f's error) and nothing
\* of what f returned is kept; with f succeeding with y it is (Unit(y), no
\* error); m is as it was.
C6_FallibleFmapShortCircuits ==
    last.op = "FallibleFmap" =>
        LET x == last.pre
            r == ApplyE(last.fn[1], x.Val)
        IN  /\ m = x
            /\ ~x.Valid => last.outM = Nothing /\ last.outErr = "" /\ last.calls = <<>>
            /\ (x.Valid /\ r.err # "") => last.outM = Nothing /\ last.outErr = r.err
            /\ (x.Valid /\ r.err = "") => last.outM = Unit(r.y) /\ last.outErr = ""

C6_Witness ==
    /\ last.op = "FallibleFmap"
    /\ last.fn = <<"errWithValue">>
    /\ last.pre.Valid
    /\ last.outErr = "ErrUnsupported"
    /\ last.outM = Nothing

\* C7 as stated: for every reachable m, Fmap(Identity, m) = m and
\* Fmap(f . g, m) = Fmap(f, Fmap(g, m)); Fmap of an empty m is empty and Fmap
\* of Unit(x) is Unit(f(x)).
C7_FunctorLaws ==
    /\ Fmap(<<"Identity">>, m) = m
    /\ \A f \in Funcs, g \in Funcs : Fmap(Compose(f, g), m) = Fmap(f, Fmap(g, m))
    /\ last.op = "Fmap" =>
           /\ last.fn = <<"Identity">> => last.outM = last.pre
           /\ ~last.pre.Valid => ~last.outM.Valid
           /\ last.pre.Valid => last.outM = Unit(Apply(last.fn, last.pre.Val))

\* m is present, or empty with the zero value in its payload slot.
IsCanonical(mm) == mm.Valid \/ mm.Val = ZeroT

\* C7 as amended: the composition law holds for every reachable m; the identity
\* law holds when m is present or its payload slot holds the zero value, and
\* for an empty m with another payload Fmap(Identity, m) is the zero empty
\* optional; Fmap of an empty m is the zero empty optional and Fmap of Unit(x)
\* is Unit(f(x)).
C7_FunctorLawsOnCanonical ==
    /\ IsCanonical(m) => Fmap(<<"Identity">>, m) = m
    /\ ~m.Valid => Fmap(<<"Identity">>, m) = Nothing
    /\ \A f \in Funcs, g \in Funcs : Fmap(Compose(f, g), m) = Fmap(f, Fmap(g, m))
    /\ last.op = "Fmap" =>
           /\ (last.fn = <<"Identity">> /\ IsCanonical(last.pre)) => last.outM = last.pre
           /\ ~last.pre.Valid => last.outM = Nothing
           /\ last.pre.Valid => last.outM = Unit(Apply(last.fn, last.pre.Val))

C7_Witness ==
    /\ last.op = "Fmap"
    /\ last.fn = <<"Identity">>
    /\ ~last.pre.Valid
    /\ last.pre.Val # ZeroT
    /\ last.outM = Nothing

\* C8 as stated: for every reachable m, Bind(Unit, m) = m; Bind(f, Nothing) is
\* Nothing for every f, which is not invoked; Join(Unit(Unit(x))) = Unit(x).
C8_MonadLaws ==
    /\ Bind("Unit", m).m = m
    /\ \A f \in KleisliFuncs : Bind(f, Nothing) = [m |-> Nothing, calls |-> <<>>]
    /\ last.op = "Bind" =>
           /\ last.fn = <<"Unit">> => last.outM = last.pre
           /\ ~last.pre.Valid => last.outM = Nothing /\ last.calls = <<>>
    /\ (last.op = "Join" /\ last.argOk /\ last.pre.Valid) => last.outM = last.pre

\* C8 as amended: Bind(Unit, m) = m holds when m is present or its payload slot
\* holds the zero value, and for an empty m with another payload Bind(Unit, m)
\* is the zero empty optional; Bind(f, m) of any empty m is the zero empty
\* optional for every f, which is not invoked; Join(Unit(Unit(x))) = Unit(x).
C8_MonadLawsOnCanonical ==
    /\ IsCanonical(m) => Bind("Unit", m).m = m
    /\ ~m.Valid => \A f \in KleisliFuncs : Bind(f, m) = [m |-> Nothing, calls |-> <<>>]
    /\ \A f \in KleisliFuncs : Bind(f, Nothing) = [m |-> Nothing, calls |-> <<>>]
    /\ last.op = "Bind" =>
           /\ (last.fn = <<"Unit">> /\ IsCanonical(last.pre)) => last.outM = last.pre
           /\ ~last.pre.Valid => last.outM = Nothing /\ last.calls = <<>>
    /\ (last.op = "Join" /\ last.argOk /\ last.pre.Valid) => last.outM = last.pre

C8_Witness ==
    /\ last.op = "Bind"
    /\ last.fn = <<"Unit">>
    /\ ~last.pre.Valid
    /\ last.pre.Val # ZeroT
    /\ last.outM = Nothing
    /\ last.calls = <<>>

\* C9 as stated: Get on a present optional holding x returns (x, true); Get on
\* an empty optional returns (the zero value of T, false); Get leaves the
\* optional as it was.
C9_GetReturnsZeroWhenEmpty ==
    last.op = "Get" =>
        /\ m = last.pre
        /\ last.pre.Valid => last.outD = IntDyn(last.pre.Val) /\ last.outOk
        /\ ~last.pre.Valid => last.outD = IntDyn(ZeroT) /\ ~last.outOk

\* C9 as amended: Get on a present optional holding x returns (x, true); Get on
\* an empty optional returns (the nil interface, false), which is not the zero
\* value of T; Get leaves the optional as it was.
C9_GetReturnsNilWhenEmpty ==
    last.op = "Get" =>
        /\ m = last.pre
        /\ last.pre.Valid => last.outD = IntDyn(last.pre.Val) /\ last.outOk
        /\ ~last.pre.Valid => last.outD = NilDyn /\ ~last.outOk

C9_Witness ==
    /\ last.op = "Get"
    /\ ~last.pre.Valid
    /\ last.outD = NilDyn
    /\ ~last.outOk

\* C10: whenever the optional is empty, whatever its payload slot holds,
\* GetOr(d) is d, GetOrZero is the zero value, Get reports not-present,
\* Pointer and GetPtr are nil, MarshalJSON is null and Value is the driver's
\* nil; and so did the last accessor called on an empty optional return.
C10_AccessorsGuardOnValid ==
    /\ ~m.Valid =>
           /\ \A d \in Vals : GetOr(m, d) = d
           /\ GetOrZero(m) = ZeroT
           /\ ~Get(m).ok
           /\ Get(m).v = NilDyn
           /\ Pointer(m, "recv") = "nil"
           /\ GetPtr(m, "recv") = "nil"
           /\ MarshalJSON(m) = null
           /\ Value(Maybe(Typed("int", IntBits(m.Val)), m.Valid)) = [v |-> NilDyn, err |-> ""]
    /\ ~last.pre.Valid =>
           /\ last.op = "GetOr" => last.outV = last.argV
           /\ last.op = "GetOrZero" => last.outV = ZeroT
           /\ last.op = "Get" => ~last.outOk /\ last.outD = NilDyn
           /\ last.op \in {"Pointer", "GetPtr"} => last.outPtr = "nil" /\ ptr = "nil"
           /\ last.op = "MarshalJSON" => last.outB = null
           /\ last.op = "Value" => last.outDV = NilDyn /\ last.outErr = ""

C10_Witness ==
    /\ last.op = "GetOr"
    /\ ~m.Valid
    /\ m.Val # ZeroT
    /\ last.argV # m.Val
    /\ last.outV = last.argV

\* C11: the Iface obtained from m.MaybeIface() is a view of m's own memory:
\* after Set, SetPtr or SetValid on it m holds what was set, and what is read
\* through it is what is read of m.
C11_IfaceIsViewOfOptional ==
    /\ (last.op = "Iface.Set" /\ last.argD.t = "int") => m = Unit(last.argD.v)
    /\ last.op = "Iface.SetPtr" => m = SetPtr(last.pre, last.argP)
    /\ last.op = "Iface.SetValid" => m = SetValid(last.pre)
    /\ last.op = "Iface.Get" => last.outD = Get(m).v /\ last.outOk = Get(m).ok
    /\ last.op \in {"Iface.Set", "Iface.SetPtr", "Iface.SetValid", "Iface.Get"} =>
           IfaceTarget = m

\* The last call was UnmarshalJSON with a token other than null that
\* encoding/json could not decode into the payload.
IsFailedDecode ==
    /\ last.op = "UnmarshalJSON"
    /\ last.argB # null
    /\ JsonUnmarshalInt(last.argB).err # ""

\* C12: when UnmarshalJSON is given a token other than null and the decode
\* fails, the caller gets the codec's error as it is and the optional is left
\* present (Valid = TRUE), whether or not it was present before.
C12_FailedDecodeMarksPresent ==
    IsFailedDecode =>
        /\ last.outErr = JsonUnmarshalInt(last.argB).err
        /\ m.Valid

C12_Witness ==
    /\ IsFailedDecode
    /\ ~last.pre.Valid
    /\ last.outErr = "SyntaxError"
    /\ m.Valid

====
